---- MODULE Spec2Model ----
(***************************************************************************)
(* PokerGameEngine (src/pokersim.py): a max-heap of Player objects stored  *)
(* in an array, with a hash map player_id -> array index that supports     *)
(* deletion and key update by id.                                          *)
(*                                                                         *)
(* The Python list self.heap is 0-based; it is modelled by a TLA+ sequence *)
(* and slot i of the list is element i + 1 of the sequence.  All indices   *)
(* appearing in the model (arguments of _swap, _sift_up, _sift_down and    *)
(* the values stored in position_map) are the 0-based indices of the code. *)
(*                                                                         *)
(* The list holds references to Player objects.  A Player is modelled by   *)
(* the record of its player_id, its hand_score and ref, which tells apart  *)
(* the Player objects that carry the same player_id: two slots hold the    *)
(* same object exactly when they agree on player_id and ref, and an       *)
(* assignment to the hand_score of an object shows in every slot that     *)
(* holds it.  A Player's name and cards never influence the structure.    *)
(***************************************************************************)
EXTENDS Integers, Sequences, FiniteSets, TLC

(* ------------------------------ bounds -------------------------------- *)

\* ids offered by a caller that may repeat ids (specification Spec)
NumIds == 2
\* largest hand_score a caller supplies
MaxScore == 2
\* add_player is not called any more once the heap holds this many players
MaxPlayers == 3
\* ids offered by a caller that never inserts a present id (SpecDistinct)
NumDistinct == 6
\* players (ids and scores) of the caller that inserts and then drains
NumRoundTrip == 5

\* players of the caller that builds a deep heap and folds one player
NumDeep == 12

\* the cap on the players of the caller that may repeat ids and fills the
\* heap's third level (SpecCrowded)
MaxCrowded == 4

\* method calls each thread makes, and the ids the threads use, when the
\* callers take no mutex
MaxCalls == 2
NumShared == 2
\* the same, when the callers take their mutex around every call
MaxSerialCalls == 3
NumSerial == 4

PlayerIds == 1 .. NumIds
DistinctIds == 1 .. NumDistinct
Scores == 1 .. MaxScore
RoundTripIds == 1 .. NumRoundTrip
RoundTripScores == 1 .. NumRoundTrip

(* ------------------------------- state -------------------------------- *)

VARIABLES
    heap,          \* self.heap: sequence of Player records
    position_map,  \* self.position_map: function player_id -> 0-based index
    op,            \* the public method that returned last ("init" before any)
    found,         \* whether the player_id that call was given was in
                   \* position_map when the call began (get_winner, which
                   \* takes no id: whether the heap held a player)
    ret,           \* the value that call returned: <<>> is None, <<p>> is p
    inserted,      \* the draining caller's record of the players it added
    drained,       \* the draining caller's record of the winners it folded
    line,          \* where simulate_game stands ("start" until it runs)
    thread,        \* per calling thread: the statement it is at inside a
                   \* public method, the method's arguments and locals
    mutex          \* the callers' lock around each method call: whether
                   \* they use one, and the thread that holds it (0: none)

vars == <<heap, position_map, op, found, ret, inserted, drained, line,
          thread, mutex>>

Player(id, score, r) == [player_id |-> id, hand_score |-> score, ref |-> r]

\* whether two references are to the same Player object
SameObject(p, q) == p.player_id = q.player_id /\ p.ref = q.ref

\* Python's None, as a returned value
None == <<>>

\* the engine's two fields as one value
Engine(h, m) == [heap |-> h, position_map |-> m]

\* self.heap[i] for a 0-based i
At(s, i) == s.heap[i + 1]

\* self.position_map[k] = v
MapSet(m, k, v) == [x \in (DOMAIN m) \cup {k} |-> IF x = k THEN v ELSE m[x]]

\* del self.position_map[k]
MapDel(m, k) == [x \in (DOMAIN m) \ {k} |-> m[x]]

\* the empty dict
EmptyMap == [x \in {} |-> 0]

(* --------------------------- index helpers ---------------------------- *)

\* faulty variant: the slot before i is taken for its parent
_parent_previous_slot(i) == i - 1

_parent(i) == (i - 1) \div 2
_left(i) == 2 * i + 1
_right(i) == 2 * i + 2

(* ------------------------------- _swap -------------------------------- *)

\* heap[i], heap[j] = heap[j], heap[i]; then the map entries of the two
\* players now at i and j are written, the one for slot j last.
\* faulty variant: the map entry of the player moved to slot j is not written
_swap_first_entry_only(s, i, j) ==
    LET h == [s.heap EXCEPT ![i + 1] = s.heap[j + 1], ![j + 1] = s.heap[i + 1]]
    IN  Engine(h, MapSet(s.position_map, h[i + 1].player_id, i))

\* faulty variant: the two slots are exchanged and position_map is not written
_swap_array_only(s, i, j) ==
    Engine([s.heap EXCEPT ![i + 1] = s.heap[j + 1], ![j + 1] = s.heap[i + 1]],
           s.position_map)

_swap(s, i, j) ==
    LET h == [s.heap EXCEPT ![i + 1] = s.heap[j + 1], ![j + 1] = s.heap[i + 1]]
        p1 == h[i + 1]
        p2 == h[j + 1]
    IN  Engine(h, MapSet(MapSet(s.position_map, p1.player_id, i), p2.player_id, j))

(* ------------------------------ _sift_up ------------------------------ *)

RECURSIVE _sift_up(_, _)
_sift_up(s, i) ==
    IF i > 0 /\ At(s, i).hand_score > At(s, _parent(i)).hand_score
    THEN _sift_up(_swap(s, i, _parent(i)), _parent(i))
    ELSE s

\* the number of times the loop of _sift_up runs its body, one _swap each
RECURSIVE _sift_up_swaps(_, _)
_sift_up_swaps(s, i) ==
    IF i > 0 /\ At(s, i).hand_score > At(s, _parent(i)).hand_score
    THEN 1 + _sift_up_swaps(_swap(s, i, _parent(i)), _parent(i))
    ELSE 0

(* ----------------------------- _sift_down ----------------------------- *)

\* faulty variant: one swap with the larger child, and no descent after it
_sift_down_one_level(s, i) ==
    LET l == _left(i)
        r == _right(i)
        size == Len(s.heap)
        m1 == IF l < size /\ At(s, l).hand_score > At(s, i).hand_score
              THEN l ELSE i
        max_idx == IF r < size /\ At(s, r).hand_score > At(s, m1).hand_score
                   THEN r ELSE m1
    IN  IF i # max_idx THEN _swap(s, i, max_idx) ELSE s

\* faulty variant: the right child is never looked at
RECURSIVE _sift_down_left_only(_, _)
_sift_down_left_only(s, i) ==
    LET l == _left(i)
        size == Len(s.heap)
        max_idx == IF l < size /\ At(s, l).hand_score > At(s, i).hand_score
                   THEN l ELSE i
    IN  IF i # max_idx
        THEN _sift_down_left_only(_swap(s, i, max_idx), max_idx)
        ELSE s

\* faulty variant: of two equal children the right one is taken
RECURSIVE _sift_down_right_on_tie(_, _)
_sift_down_right_on_tie(s, i) ==
    LET l == _left(i)
        r == _right(i)
        size == Len(s.heap)
        m1 == IF l < size /\ At(s, l).hand_score > At(s, i).hand_score
              THEN l ELSE i
        max_idx == IF r < size /\ At(s, r).hand_score >= At(s, m1).hand_score
                   THEN r ELSE m1
    IN  IF i # max_idx
        THEN _sift_down_right_on_tie(_swap(s, i, max_idx), max_idx)
        ELSE s

\* faulty variant: a child that equals the slot's player is swapped too
RECURSIVE _sift_down_on_equal(_, _)
_sift_down_on_equal(s, i) ==
    LET l == _left(i)
        r == _right(i)
        size == Len(s.heap)
        m1 == IF l < size /\ At(s, l).hand_score >= At(s, i).hand_score
              THEN l ELSE i
        max_idx == IF r < size /\ At(s, r).hand_score > At(s, m1).hand_score
                   THEN r ELSE m1
    IN  IF i # max_idx
        THEN _sift_down_on_equal(_swap(s, i, max_idx), max_idx)
        ELSE s

RECURSIVE _sift_down(_, _)
_sift_down(s, i) ==
    LET l == _left(i)
        r == _right(i)
        size == Len(s.heap)
        m1 == IF l < size /\ At(s, l).hand_score > At(s, i).hand_score
              THEN l ELSE i
        max_idx == IF r < size /\ At(s, r).hand_score > At(s, m1).hand_score
                   THEN r ELSE m1
    IN  IF i # max_idx
        THEN _sift_down(_swap(s, i, max_idx), max_idx)
        ELSE s

(* --------------------------- public methods --------------------------- *)
\* Each method is a function from the engine before the call to the engine
\* after it and the returned value.

Outcome(s, r) == [heap |-> s.heap, position_map |-> s.position_map, ret |-> r]

\* add_player up to and including the write of position_map: the engine
\* on which it calls _sift_up
after_append(s, player) ==
    LET h == Append(s.heap, player)
        index == Len(h) - 1
    IN  Engine(h, MapSet(s.position_map, player.player_id, index))

add_player(s, player) ==
    LET index == Len(s.heap)
    IN  Outcome(_sift_up(after_append(s, player), index), None)

\* faulty variant: the winner is taken out of the heap as it is returned
get_winner_take_out(s) ==
    IF Len(s.heap) > 0
    THEN Outcome(Engine(Tail(s.heap), MapDel(s.position_map, At(s, 0).player_id)),
                 <<At(s, 0)>>)
    ELSE Outcome(s, None)

get_winner(s) ==
    Outcome(s, IF Len(s.heap) > 0 THEN <<At(s, 0)>> ELSE None)

\* faulty variant: an id that is not in position_map is looked up with the
\* last slot as its default, so the last player is folded in its place
fold_player_default_last(s, player_id) ==
    IF Len(s.heap) = 0
    THEN Outcome(s, None)
    ELSE LET last_idx == Len(s.heap) - 1
             index == IF player_id \in DOMAIN s.position_map
                      THEN s.position_map[player_id]
                      ELSE last_idx
             swapped == _swap(s, index, last_idx)
             popped == Engine(SubSeq(swapped.heap, 1, last_idx),
                              MapDel(swapped.position_map, player_id))
         IN  IF index < Len(popped.heap)
             THEN Outcome(_sift_down(_sift_up(popped, index), index), None)
             ELSE Outcome(popped, None)

\* faulty variant: the player is not swapped to the last slot before the
\* pop, so the last player is the one that leaves the array
fold_player_without_swap(s, player_id) ==
    IF player_id \notin DOMAIN s.position_map
    THEN Outcome(s, None)
    ELSE LET index == s.position_map[player_id]
             last_idx == Len(s.heap) - 1
             popped == Engine(SubSeq(s.heap, 1, last_idx),
                              MapDel(s.position_map, player_id))
         IN  IF index < Len(popped.heap)
             THEN Outcome(_sift_down(_sift_up(popped, index), index), None)
             ELSE Outcome(popped, None)

\* fold_player of a present id, up to and including the pop and the del:
\* the engine on which it calls _sift_up and _sift_down
after_pop(s, player_id) ==
    LET index == s.position_map[player_id]
        last_idx == Len(s.heap) - 1
        swapped == _swap(s, index, last_idx)
    IN  Engine(SubSeq(swapped.heap, 1, last_idx),
               MapDel(swapped.position_map, player_id))

fold_player(s, player_id) ==
    IF player_id \notin DOMAIN s.position_map
    THEN Outcome(s, None)
    ELSE LET index == s.position_map[player_id]
             popped == after_pop(s, player_id)
         IN  IF index < Len(popped.heap)
             THEN Outcome(_sift_down(_sift_up(popped, index), index), None)
             ELSE Outcome(popped, None)

\* self.heap[index].hand_score = new_score: the object in slot index is
\* assigned, and so is seen changed through every slot that refers to it
RECURSIVE Assign(_, _, _)
Assign(h, obj, new_score) ==
    IF h = <<>>
    THEN <<>>
    ELSE <<IF SameObject(Head(h), obj)
           THEN [Head(h) EXCEPT !.hand_score = new_score]
           ELSE Head(h)>> \o Assign(Tail(h), obj, new_score)

SetScore(h, index, new_score) == Assign(h, h[index + 1], new_score)

\* update_hand_strength of a present id, up to and including the
\* assignment: the engine on which it calls _sift_up or _sift_down
after_assign(s, player_id, new_score) ==
    Engine(SetScore(s.heap, s.position_map[player_id], new_score), s.position_map)

\* faulty variant: the slot is sifted down whatever the two scores are
update_hand_strength_down_only(s, player_id, new_score) ==
    IF player_id \notin DOMAIN s.position_map
    THEN Outcome(s, None)
    ELSE Outcome(_sift_down(after_assign(s, player_id, new_score),
                            s.position_map[player_id]), None)

update_hand_strength(s, player_id, new_score) ==
    IF player_id \notin DOMAIN s.position_map
    THEN Outcome(s, None)
    ELSE LET index == s.position_map[player_id]
             old_score == At(s, index).hand_score
             t == after_assign(s, player_id, new_score)
         IN  IF new_score > old_score
             THEN Outcome(_sift_up(t, index), None)
             ELSE Outcome(_sift_down(t, index), None)

(* ------------------------------ threads ------------------------------ *)
\* The methods once more, statement by statement, for callers on several
\* threads: a thread is at one statement of one method, and a step of the
\* thread runs that statement on the shared heap and position_map.

Threads == {1, 2}

\* a thread that is in no method: pc is the statement it is at, method the
\* public method it is in, player_id and new_score that method's arguments
\* (for add_player: of the Player passed), the rest the locals of the
\* method and of the _sift_up, _sift_down and _swap it is in -- sift tells
\* which sift that is, si and sj are _swap's i and j, a and b the values
\* _swap holds between its reads and writes (then its p1 and p2)
NoFrame ==
    [pc |-> "idle", calls |-> 0, method |-> "none", player_id |-> 0,
     new_score |-> 0, index |-> 0, last_idx |-> 0, old_score |-> 0,
     i |-> 0, sift |-> "none", size |-> 0, max_idx |-> 0,
     si |-> 0, sj |-> 0, a |-> None, b |-> None]

Mutex(used) == [used |-> used, holder |-> 0]

(* ------------------------------ actions ------------------------------- *)

Self == Engine(heap, position_map)

Init ==
    /\ heap = <<>>
    /\ position_map = EmptyMap
    /\ op = "init"
    /\ found = FALSE
    /\ ret = None
    /\ inserted = {}
    /\ drained = <<>>
    /\ line = "start"
    /\ thread = <<NoFrame, NoFrame>>
    /\ mutex = Mutex(TRUE)

\* ref only names the Player objects, and which name an object has is
\* immaterial: the state keeps the objects with one player_id numbered
\* 1, 2, ... in the order of the first slot that refers to them.
FirstSlot(h, k) ==
    CHOOSE j \in 1 .. k :
        /\ SameObject(h[j], h[k])
        /\ \A i \in 1 .. j - 1 : ~SameObject(h[i], h[k])

CanonRef(h, k) ==
    1 + Cardinality({h[j].ref : j \in {i \in 1 .. FirstSlot(h, k) - 1 :
                                            h[i].player_id = h[k].player_id}})

RECURSIVE RenumberFrom(_, _)
RenumberFrom(h, k) ==
    IF k > Len(h)
    THEN <<>>
    ELSE <<[h[k] EXCEPT !.ref = CanonRef(h, k)]>> \o RenumberFrom(h, k + 1)

\* (objects with pairwise different ids that are all numbered 1 are
\* numbered canonically already)
Renumber(h) ==
    IF /\ \A k \in 1 .. Len(h) : h[k].ref = 1
       /\ Cardinality({h[k].player_id : k \in 1 .. Len(h)}) = Len(h)
    THEN h
    ELSE RenumberFrom(h, 1)

Returned(o, name, present) ==
    /\ heap' = Renumber(o.heap)
    /\ position_map' = o.position_map
    /\ ret' = o.ret
    /\ op' = name
    /\ found' = present

CallAddPlayer(player) ==
    Returned(add_player(Self, player), "add_player",
             player.player_id \in DOMAIN position_map)

CallGetWinner ==
    Returned(get_winner(Self), "get_winner", Len(heap) > 0)

CallFoldPlayer(id) ==
    Returned(fold_player(Self, id), "fold_player", id \in DOMAIN position_map)

CallUpdateHandStrength(id, score) ==
    Returned(update_hand_strength(Self, id, score), "update_hand_strength",
             id \in DOMAIN position_map)

\* the Player objects the heap refers to
Held == {heap[k] : k \in 1 .. Len(heap)}

\* the ref of a Player object constructed now with this id: the objects in
\* the heap with this id are numbered 1 .. n, and it is the next one
FreshRef(id) == 1 + Cardinality({p \in Held : p.player_id = id})

\* the Player objects a caller can construct with an id of ids
NewPlayers(ids) == {Player(id, score, FreshRef(id)) : id \in ids, score \in Scores}

\* A caller that passes any id to any method, and any Player object to
\* add_player: one it has just constructed, or one the heap already holds.
AddNew ==
    /\ Len(heap) < MaxPlayers
    /\ \E player \in NewPlayers(PlayerIds) : CallAddPlayer(player)
    /\ UNCHANGED <<inserted, drained, line, thread, mutex>>
AddHeld ==
    /\ Len(heap) < MaxPlayers
    /\ \E player \in Held : CallAddPlayer(player)
    /\ UNCHANGED <<inserted, drained, line, thread, mutex>>
GetWinner ==
    /\ CallGetWinner
    /\ UNCHANGED <<inserted, drained, line, thread, mutex>>
FoldAny ==
    /\ \E id \in PlayerIds : CallFoldPlayer(id)
    /\ UNCHANGED <<inserted, drained, line, thread, mutex>>
UpdateAny ==
    /\ \E id \in PlayerIds, score \in Scores : CallUpdateHandStrength(id, score)
    /\ UNCHANGED <<inserted, drained, line, thread, mutex>>

Next == AddNew \/ AddHeld \/ GetWinner \/ FoldAny \/ UpdateAny

Spec == Init /\ [][Next]_vars

\* The same caller, adding players until the heap has a slot on its third
\* level: a slot with a parent other than the root.
AddNewCrowded ==
    /\ Len(heap) < MaxCrowded
    /\ \E player \in NewPlayers(PlayerIds) : CallAddPlayer(player)
    /\ UNCHANGED <<inserted, drained, line, thread, mutex>>
AddHeldCrowded ==
    /\ Len(heap) < MaxCrowded
    /\ \E player \in Held : CallAddPlayer(player)
    /\ UNCHANGED <<inserted, drained, line, thread, mutex>>

NextCrowded == AddNewCrowded \/ AddHeldCrowded \/ GetWinner \/ FoldAny \/ UpdateAny

SpecCrowded == Init /\ [][NextCrowded]_vars

\* A caller that keeps add_player's precondition: the id it inserts is not
\* in the structure.  Ids of folded players may be inserted again.
AddAbsent ==
    /\ \E player \in NewPlayers(DistinctIds \ DOMAIN position_map) :
          CallAddPlayer(player)
    /\ UNCHANGED <<inserted, drained, line, thread, mutex>>
PeekDistinct ==
    /\ CallGetWinner
    /\ UNCHANGED <<inserted, drained, line, thread, mutex>>
FoldDistinct ==
    /\ \E id \in DistinctIds : CallFoldPlayer(id)
    /\ UNCHANGED <<inserted, drained, line, thread, mutex>>
UpdateDistinct ==
    /\ \E id \in DistinctIds, score \in Scores : CallUpdateHandStrength(id, score)
    /\ UNCHANGED <<inserted, drained, line, thread, mutex>>

NextDistinct == AddAbsent \/ PeekDistinct \/ FoldDistinct \/ UpdateDistinct

SpecDistinct == Init /\ [][NextDistinct]_vars

\* A caller that adds players with pairwise different ids and pairwise
\* different scores, in any order, and then empties the structure: it reads
\* get_winner and folds the player it was given, until none is left.
InsertRoundTrip ==
    /\ op \in {"init", "add_player"}
    /\ \E id \in RoundTripIds \ {p.player_id : p \in inserted},
          score \in RoundTripScores \ {p.hand_score : p \in inserted} :
          /\ CallAddPlayer(Player(id, score, 1))
          /\ inserted' = inserted \cup {Player(id, score, 1)}
    /\ UNCHANGED <<drained, line, thread, mutex>>
PeekRoundTrip ==
    /\ op # "get_winner"
    /\ Len(heap) > 0
    /\ CallGetWinner
    /\ UNCHANGED <<inserted, drained, line, thread, mutex>>
FoldRoundTrip ==
    /\ op = "get_winner"
    /\ ret # None
    /\ CallFoldPlayer(ret[1].player_id)
    /\ drained' = Append(drained, ret[1])
    /\ UNCHANGED <<inserted, line, thread, mutex>>

NextRoundTrip == InsertRoundTrip \/ PeekRoundTrip \/ FoldRoundTrip

SpecRoundTrip == Init /\ [][NextRoundTrip]_vars

\* A caller that adds players with the ids 1, 2, 3, ... in this order, with
\* any scores, and then folds one of them: the heaps it builds are deep
\* enough for fold_player to rebalance a slot that has a parent other than
\* the root and children.  The sifts only compare scores, and two different
\* scores give every pattern of comparisons between neighbours.
DeepScores == {MaxScore - 1, MaxScore}

AddInOrder ==
    /\ op \in {"init", "add_player"}
    /\ Len(heap) < NumDeep
    /\ \E score \in DeepScores : CallAddPlayer(Player(Len(heap) + 1, score, 1))
    /\ UNCHANGED <<inserted, drained, line, thread, mutex>>
FoldDeep ==
    /\ op = "add_player"
    /\ Len(heap) = NumDeep
    /\ \E id \in DOMAIN position_map : CallFoldPlayer(id)
    /\ UNCHANGED <<inserted, drained, line, thread, mutex>>

NextDeep == AddInOrder \/ FoldDeep

SpecDeep == Init /\ [][NextDeep]_vars

\* simulate_game: four players with the ids 1 .. 4 are dealt a random
\* hand_score each and added; then the flop, a fold, the turn and the
\* river, with the leader read in between.  random.randint(100, 500) is
\* any of the values of DealtScores.  inserted records the players as dealt.
DealtScores == {100, 200, 300, 500}

Deal ==
    /\ line = "start"
    /\ \E score \in DealtScores :
          /\ CallAddPlayer(Player(Len(heap) + 1, score, 1))
          /\ inserted' = inserted \cup {Player(Len(heap) + 1, score, 1)}
    /\ line' = IF Len(heap) + 1 = 4 THEN "leader" ELSE "start"
    /\ UNCHANGED <<drained, thread, mutex>>
Leader ==
    /\ line \in {"leader", "flop leader", "turn leader", "showdown"}
    /\ CallGetWinner
    /\ line' = CASE line = "leader" -> "flop"
                  [] line = "flop leader" -> "betting"
                  [] line = "turn leader" -> "river"
                  [] line = "showdown" -> "end"
    /\ UNCHANGED <<inserted, drained, thread, mutex>>
Flop ==
    /\ line = "flop"
    /\ CallUpdateHandStrength(1, 850)
    /\ line' = "flop leader"
    /\ UNCHANGED <<inserted, drained, thread, mutex>>
Betting ==
    /\ line = "betting"
    /\ CallFoldPlayer(4)
    /\ line' = "turn"
    /\ UNCHANGED <<inserted, drained, thread, mutex>>
Turn ==
    /\ line = "turn"
    /\ CallUpdateHandStrength(3, 900)
    /\ line' = "turn leader"
    /\ UNCHANGED <<inserted, drained, thread, mutex>>
River ==
    /\ line = "river"
    /\ CallUpdateHandStrength(3, 1200)
    /\ line' = "showdown"
    /\ UNCHANGED <<inserted, drained, thread, mutex>>

simulate_game == Deal \/ Leader \/ Flop \/ Betting \/ Turn \/ River

SpecGame == Init /\ [][simulate_game]_vars

(* ------------------------- threaded callers --------------------------- *)
\* Two threads call the methods of one engine.  Each statement of a method
\* is one step, named by its line in src/pokersim.py (line 32 is three
\* steps: its loads, then its two stores), so the
\* steps of two calls interleave unless the callers take their mutex around
\* every call.  A thread adds only Player objects it has constructed, with
\* an id of its own that is not in the structure; it folds and updates any
\* id.  An IndexError or KeyError ends the thread.

SharedIds == IF mutex.used THEN 1 .. NumSerial ELSE 1 .. NumShared
CallsAllowed == IF mutex.used THEN MaxSerialCalls ELSE MaxCalls
OwnIds(t) == {id \in SharedIds : id % 2 = t % 2}

Rest == <<op, found, ret, inserted, drained, line>>

\* Python list indexing: a negative index counts from the end of the list
InRange(h, k) == -Len(h) <= k /\ k < Len(h)
PySlot(h, k) == (IF k < 0 THEN k + Len(h) ELSE k) + 1
PyAt(h, k) == h[PySlot(h, k)]

\* the thread goes on inside its method
Local(t, f) ==
    /\ thread' = [thread EXCEPT ![t] = f]
    /\ mutex' = mutex

\* the thread leaves its method, and gives the mutex back
Leave(t, label) ==
    /\ thread' = [thread EXCEPT ![t] = [NoFrame EXCEPT !.pc = label,
                                                       !.calls = thread[t].calls]]
    /\ mutex' = [mutex EXCEPT !.holder = 0]
Return(t) == Leave(t, "idle")
Raise(t) == Leave(t, "raised")

\* the thread calls a method (after taking the mutex, if the callers use it)
Call(t, method, id, score, label) ==
    /\ thread[t].pc = "idle"
    /\ thread[t].calls < CallsAllowed
    /\ mutex.used => mutex.holder = 0
    /\ thread' = [thread EXCEPT ![t] =
                      [NoFrame EXCEPT !.pc = label,
                                      !.calls = thread[t].calls + 1,
                                      !.method = method,
                                      !.player_id = id,
                                      !.new_score = score]]
    /\ mutex' = IF mutex.used THEN [mutex EXCEPT !.holder = t] ELSE mutex
    /\ UNCHANGED <<heap, position_map, Rest>>

call_add_player(t) ==
    \E id \in OwnIds(t) \ ((DOMAIN position_map) \cup {p.player_id : p \in Held}),
       score \in Scores :
        Call(t, "add_player", id, score, "64")
call_get_winner(t) == Call(t, "get_winner", 0, 0, "71")
call_fold_player(t) ==
    \E id \in SharedIds : Call(t, "fold_player", id, 0, "78")
call_update_hand_strength(t) ==
    \E id \in SharedIds, score \in Scores :
        Call(t, "update_hand_strength", id, score, "104")

\* the calls of _sift_up(index), of _sift_down(index) and of _swap(i, j)
EnterSiftUp(f) == [f EXCEPT !.i = f.index, !.sift = "up", !.pc = "41"]
EnterSiftDown(f) == [f EXCEPT !.i = f.index, !.sift = "down", !.pc = "47"]
EnterSwap(f, i, j) == [f EXCEPT !.si = i, !.sj = j, !.pc = "32"]

(* add_player *)
add_player_64(t) ==
    LET f == thread[t]
    IN  /\ f.pc = "64"
        /\ heap' = Append(heap, Player(f.player_id, f.new_score, 1))
        /\ Local(t, [f EXCEPT !.pc = "65"])
        /\ UNCHANGED <<position_map, Rest>>
add_player_65(t) ==
    LET f == thread[t]
    IN  /\ f.pc = "65"
        /\ Local(t, [f EXCEPT !.index = Len(heap) - 1, !.pc = "66"])
        /\ UNCHANGED <<heap, position_map, Rest>>
add_player_66(t) ==
    LET f == thread[t]
    IN  /\ f.pc = "66"
        /\ position_map' = MapSet(position_map, f.player_id, f.index)
        /\ Local(t, EnterSiftUp(f))
        /\ UNCHANGED <<heap, Rest>>

(* get_winner *)
get_winner_71(t) ==
    LET f == thread[t]
    IN  /\ f.pc = "71"
        /\ Return(t)
        /\ UNCHANGED <<heap, position_map, Rest>>

(* _sift_up *)
_sift_up_41(t) ==
    LET f == thread[t]
        p == _parent(f.i)
    IN  /\ f.pc = "41"
        /\ IF f.i > 0 /\ ~(InRange(heap, f.i) /\ InRange(heap, p))
           THEN Raise(t)
           ELSE IF f.i > 0 /\ PyAt(heap, f.i).hand_score > PyAt(heap, p).hand_score
           THEN Local(t, EnterSwap(f, f.i, p))
           ELSE IF f.method = "fold_player"
           THEN Local(t, EnterSiftDown(f))
           ELSE Return(t)
        /\ UNCHANGED <<heap, position_map, Rest>>
_sift_up_43(t) ==
    LET f == thread[t]
    IN  /\ f.pc = "43"
        /\ Local(t, [f EXCEPT !.i = _parent(f.i), !.pc = "41"])
        /\ UNCHANGED <<heap, position_map, Rest>>

(* _swap *)
_swap_32_load(t) ==
    LET f == thread[t]
    IN  /\ f.pc = "32"
        /\ IF InRange(heap, f.sj) /\ InRange(heap, f.si)
           THEN Local(t, [f EXCEPT !.a = <<PyAt(heap, f.sj)>>,
                                   !.b = <<PyAt(heap, f.si)>>,
                                   !.pc = "32i"])
           ELSE Raise(t)
        /\ UNCHANGED <<heap, position_map, Rest>>
_swap_32_store_i(t) ==
    LET f == thread[t]
    IN  /\ f.pc = "32i"
        /\ IF InRange(heap, f.si)
           THEN /\ heap' = [heap EXCEPT ![PySlot(heap, f.si)] = f.a[1]]
                /\ Local(t, [f EXCEPT !.pc = "32j"])
           ELSE /\ heap' = heap
                /\ Raise(t)
        /\ UNCHANGED <<position_map, Rest>>
_swap_32_store_j(t) ==
    LET f == thread[t]
    IN  /\ f.pc = "32j"
        /\ IF InRange(heap, f.sj)
           THEN /\ heap' = [heap EXCEPT ![PySlot(heap, f.sj)] = f.b[1]]
                /\ Local(t, [f EXCEPT !.pc = "35"])
           ELSE /\ heap' = heap
                /\ Raise(t)
        /\ UNCHANGED <<position_map, Rest>>
_swap_35(t) ==
    LET f == thread[t]
    IN  /\ f.pc = "35"
        /\ IF InRange(heap, f.si) /\ InRange(heap, f.sj)
           THEN Local(t, [f EXCEPT !.a = <<PyAt(heap, f.si)>>,
                                   !.b = <<PyAt(heap, f.sj)>>,
                                   !.pc = "36"])
           ELSE Raise(t)
        /\ UNCHANGED <<heap, position_map, Rest>>
_swap_36(t) ==
    LET f == thread[t]
    IN  /\ f.pc = "36"
        /\ position_map' = MapSet(position_map, f.a[1].player_id, f.si)
        /\ Local(t, [f EXCEPT !.pc = "37"])
        /\ UNCHANGED <<heap, Rest>>
\* faulty variant: the entry of the player now in slot j is not written
_swap_37_skipped(t) ==
    LET f == thread[t]
    IN  /\ f.pc = "37"
        /\ Local(t, [f EXCEPT !.si = 0, !.sj = 0, !.a = None, !.b = None,
                              !.pc = CASE f.sift = "up" -> "43"
                                       [] f.sift = "down" -> "58"
                                       [] OTHER -> "90"])
        /\ UNCHANGED <<heap, position_map, Rest>>

_swap_37(t) ==
    LET f == thread[t]
    IN  /\ f.pc = "37"
        /\ position_map' = MapSet(position_map, f.b[1].player_id, f.sj)
        /\ Local(t, [f EXCEPT !.si = 0, !.sj = 0, !.a = None, !.b = None,
                              !.pc = CASE f.sift = "up" -> "43"
                                       [] f.sift = "down" -> "58"
                                       [] OTHER -> "90"])
        /\ UNCHANGED <<heap, Rest>>

(* _sift_down *)
_sift_down_47(t) ==
    LET f == thread[t]
    IN  /\ f.pc = "47"
        /\ Local(t, [f EXCEPT !.max_idx = f.i, !.size = Len(heap), !.pc = "51"])
        /\ UNCHANGED <<heap, position_map, Rest>>
\* lines 51-52 with c the left child, lines 53-54 with c the right child
Compare(t, c, next) ==
    LET f == thread[t]
    IN  /\ IF c < f.size /\ ~(InRange(heap, c) /\ InRange(heap, f.max_idx))
           THEN Raise(t)
           ELSE IF c < f.size
                   /\ PyAt(heap, c).hand_score > PyAt(heap, f.max_idx).hand_score
           THEN Local(t, [f EXCEPT !.max_idx = c, !.pc = next])
           ELSE Local(t, [f EXCEPT !.pc = next])
        /\ UNCHANGED <<heap, position_map, Rest>>
_sift_down_51(t) ==
    /\ thread[t].pc = "51"
    /\ Compare(t, _left(thread[t].i), "53")
_sift_down_53(t) ==
    /\ thread[t].pc = "53"
    /\ Compare(t, _right(thread[t].i), "56")
_sift_down_56(t) ==
    LET f == thread[t]
    IN  /\ f.pc = "56"
        /\ IF f.i # f.max_idx
           THEN Local(t, EnterSwap(f, f.i, f.max_idx))
           ELSE Return(t)
        /\ UNCHANGED <<heap, position_map, Rest>>
\* faulty variant: the recursive call is given i again
_sift_down_58_same_slot(t) ==
    LET f == thread[t]
    IN  /\ f.pc = "58"
        /\ Local(t, [f EXCEPT !.pc = "47"])
        /\ UNCHANGED <<heap, position_map, Rest>>

_sift_down_58(t) ==
    LET f == thread[t]
    IN  /\ f.pc = "58"
        /\ Local(t, [f EXCEPT !.i = f.max_idx, !.pc = "47"])
        /\ UNCHANGED <<heap, position_map, Rest>>

(* fold_player *)
fold_player_78(t) ==
    LET f == thread[t]
    IN  /\ f.pc = "78"
        /\ IF f.player_id \notin DOMAIN position_map
           THEN Return(t)
           ELSE Local(t, [f EXCEPT !.pc = "81"])
        /\ UNCHANGED <<heap, position_map, Rest>>
fold_player_81(t) ==
    LET f == thread[t]
    IN  /\ f.pc = "81"
        /\ IF f.player_id \notin DOMAIN position_map
           THEN Raise(t)
           ELSE Local(t, [f EXCEPT !.index = position_map[f.player_id],
                                   !.pc = "82"])
        /\ UNCHANGED <<heap, position_map, Rest>>
fold_player_82(t) ==
    LET f == thread[t]
    IN  /\ f.pc = "82"
        /\ Local(t, [f EXCEPT !.last_idx = Len(heap) - 1, !.pc = "84"])
        /\ UNCHANGED <<heap, position_map, Rest>>
\* line 84 reads heap[index] for the message; line 87 calls _swap
fold_player_84(t) ==
    LET f == thread[t]
    IN  /\ f.pc = "84"
        /\ IF InRange(heap, f.index)
           THEN Local(t, EnterSwap(f, f.index, f.last_idx))
           ELSE Raise(t)
        /\ UNCHANGED <<heap, position_map, Rest>>
fold_player_90(t) ==
    LET f == thread[t]
    IN  /\ f.pc = "90"
        /\ IF Len(heap) > 0
           THEN /\ heap' = SubSeq(heap, 1, Len(heap) - 1)
                /\ Local(t, [f EXCEPT !.pc = "91"])
           ELSE /\ heap' = heap
                /\ Raise(t)
        /\ UNCHANGED <<position_map, Rest>>
fold_player_91(t) ==
    LET f == thread[t]
    IN  /\ f.pc = "91"
        /\ IF f.player_id \in DOMAIN position_map
           THEN /\ position_map' = MapDel(position_map, f.player_id)
                /\ Local(t, [f EXCEPT !.pc = "94"])
           ELSE /\ position_map' = position_map
                /\ Raise(t)
        /\ UNCHANGED <<heap, Rest>>
fold_player_94(t) ==
    LET f == thread[t]
    IN  /\ f.pc = "94"
        /\ IF f.index < Len(heap)
           THEN Local(t, EnterSiftUp(f))
           ELSE Return(t)
        /\ UNCHANGED <<heap, position_map, Rest>>

(* update_hand_strength *)
update_hand_strength_104(t) ==
    LET f == thread[t]
    IN  /\ f.pc = "104"
        /\ IF f.player_id \notin DOMAIN position_map
           THEN Return(t)
           ELSE Local(t, [f EXCEPT !.pc = "107"])
        /\ UNCHANGED <<heap, position_map, Rest>>
update_hand_strength_107(t) ==
    LET f == thread[t]
    IN  /\ f.pc = "107"
        /\ IF f.player_id \notin DOMAIN position_map
           THEN Raise(t)
           ELSE Local(t, [f EXCEPT !.index = position_map[f.player_id],
                                   !.pc = "108"])
        /\ UNCHANGED <<heap, position_map, Rest>>
update_hand_strength_108(t) ==
    LET f == thread[t]
    IN  /\ f.pc = "108"
        /\ IF InRange(heap, f.index)
           THEN Local(t, [f EXCEPT !.old_score = PyAt(heap, f.index).hand_score,
                                   !.pc = "109"])
           ELSE Raise(t)
        /\ UNCHANGED <<heap, position_map, Rest>>
\* the assignment shows through every reference to the object: the slots
\* of the heap and the values a thread holds inside _swap
Seen(held, obj, new_score) ==
    IF held # None /\ SameObject(held[1], obj)
    THEN <<[held[1] EXCEPT !.hand_score = new_score]>>
    ELSE held
SeenBy(f, obj, new_score) ==
    [f EXCEPT !.a = Seen(f.a, obj, new_score), !.b = Seen(f.b, obj, new_score)]
update_hand_strength_109(t) ==
    LET f == thread[t]
        obj == PyAt(heap, f.index)
        g(u) == IF u = t THEN [thread[u] EXCEPT !.pc = "111"] ELSE thread[u]
    IN  /\ f.pc = "109"
        /\ IF InRange(heap, f.index)
           THEN /\ heap' = Assign(heap, obj, f.new_score)
                /\ thread' = <<SeenBy(g(1), obj, f.new_score),
                               SeenBy(g(2), obj, f.new_score)>>
                /\ mutex' = mutex
           ELSE /\ heap' = heap
                /\ Raise(t)
        /\ UNCHANGED <<position_map, Rest>>
\* line 111 reads heap[index] again, for the message
update_hand_strength_111(t) ==
    LET f == thread[t]
    IN  /\ f.pc = "111"
        /\ IF InRange(heap, f.index)
           THEN Local(t, [f EXCEPT !.pc = "113"])
           ELSE Raise(t)
        /\ UNCHANGED <<heap, position_map, Rest>>
update_hand_strength_113(t) ==
    LET f == thread[t]
    IN  /\ f.pc = "113"
        /\ IF f.new_score > f.old_score
           THEN Local(t, EnterSiftUp(f))
           ELSE Local(t, EnterSiftDown(f))
        /\ UNCHANGED <<heap, position_map, Rest>>

Step(t) ==
    \/ call_add_player(t) \/ call_get_winner(t)
    \/ call_fold_player(t) \/ call_update_hand_strength(t)
    \/ add_player_64(t) \/ add_player_65(t) \/ add_player_66(t)
    \/ get_winner_71(t)
    \/ _sift_up_41(t) \/ _sift_up_43(t)
    \/ _swap_32_load(t) \/ _swap_32_store_i(t) \/ _swap_32_store_j(t)
    \/ _swap_35(t) \/ _swap_36(t) \/ _swap_37(t)
    \/ _sift_down_47(t) \/ _sift_down_51(t) \/ _sift_down_53(t)
    \/ _sift_down_56(t) \/ _sift_down_58(t)
    \/ fold_player_78(t) \/ fold_player_81(t) \/ fold_player_82(t)
    \/ fold_player_84(t) \/ fold_player_90(t) \/ fold_player_91(t)
    \/ fold_player_94(t)
    \/ update_hand_strength_104(t) \/ update_hand_strength_107(t)
    \/ update_hand_strength_108(t) \/ update_hand_strength_109(t)
    \/ update_hand_strength_111(t) \/ update_hand_strength_113(t)

NextThreads == \E t \in Threads : Step(t)

\* callers that may or may not take the mutex around their calls
InitThreads ==
    /\ heap = <<>>
    /\ position_map = EmptyMap
    /\ op = "init"
    /\ found = FALSE
    /\ ret = None
    /\ inserted = {}
    /\ drained = <<>>
    /\ line = "start"
    /\ thread = <<NoFrame, NoFrame>>
    /\ mutex \in {Mutex(TRUE), Mutex(FALSE)}

SpecThreads == InitThreads /\ [][NextThreads]_vars

\* callers that take the mutex around every call, on threads that are
\* scheduled again and again
SpecSerial == Init /\ [][NextThreads]_vars /\ \A t \in Threads : WF_vars(Step(t))

(* ====================================================================== *)
(*                               properties                               *)
(* ====================================================================== *)

Slots == 0 .. Len(heap) - 1
IdsInHeap == {heap[k].player_id : k \in 1 .. Len(heap)}
Mutators == {"add_player", "fold_player", "update_hand_strength"}
ByIdMethods == {"fold_player", "update_hand_strength"}

(* ---------------------------------------------------------------------- *)
(* C1.  Heap invariant: when every add_player uses an id that is not in    *)
(* the structure, after each add_player, fold_player and                  *)
(* update_hand_strength call has returned, every non-root slot i has      *)
(* hand_score(heap[parent(i)]) >= hand_score(heap[i]).                     *)
(* ---------------------------------------------------------------------- *)
HeapInvariant ==
    \A i \in Slots \ {0} :
        At(Self, _parent(i)).hand_score >= At(Self, i).hand_score

\* fold_player removed a present player from a full structure and left five
\* players on three levels with unequal scores on both sides of the root
HeapInvariantWitness ==
    /\ op = "fold_player"
    /\ found
    /\ Len(heap) = NumDistinct - 1
    /\ At(Self, 0).hand_score > At(Self, 1).hand_score
    /\ At(Self, 2).hand_score > At(Self, 3).hand_score

(* ---------------------------------------------------------------------- *)
(* C2.  Bijection invariant: when every add_player uses an id that is not  *)
(* in the structure, position_map[heap[i].player_id] = i for every slot i, *)
(* the keys of position_map are exactly the ids stored in the heap, and   *)
(* no id is stored in two slots.                                          *)
(* ---------------------------------------------------------------------- *)
BijectionInvariant ==
    /\ \A i \in Slots :
          /\ At(Self, i).player_id \in DOMAIN position_map
          /\ position_map[At(Self, i).player_id] = i
    /\ DOMAIN position_map = IdsInHeap
    /\ \A i, j \in Slots : At(Self, i).player_id = At(Self, j).player_id => i = j

\* a present player was folded out of a structure that still holds four
\* players, and the ids are no longer in insertion order
BijectionWitness ==
    /\ op = "fold_player"
    /\ found
    /\ Len(heap) >= 4
    /\ \E i, j \in Slots : i < j /\ At(Self, i).player_id > At(Self, j).player_id

(* ---------------------------------------------------------------------- *)
(* C3.  add_player with an id that is already in position_map fails and   *)
(* leaves the heap array and position_map unchanged.                      *)
(* ---------------------------------------------------------------------- *)
DuplicateInsertRejected ==
    [][(op' = "add_player" /\ found')
          => (heap' = heap /\ position_map' = position_map)]_vars

(* ---------------------------------------------------------------------- *)
(* C4.  Max correctness: in every reachable state with at least one       *)
(* player, get_winner returns a player of the heap whose hand_score is    *)
(* >= the hand_score of every player in the heap.                         *)
(* ---------------------------------------------------------------------- *)
MaxCorrectness ==
    (op = "get_winner" /\ Len(heap) > 0) =>
        /\ Len(ret) = 1
        /\ \E i \in Slots : At(Self, i) = ret[1]
        /\ \A i \in Slots : ret[1].hand_score >= At(Self, i).hand_score

\* get_winner returned from a full structure that holds a weaker player
MaxCorrectnessWitness ==
    /\ op = "get_winner"
    /\ Len(heap) = MaxPlayers
    /\ Len(ret) = 1
    /\ \E i \in Slots : ret[1].hand_score > At(Self, i).hand_score

(* ---------------------------------------------------------------------- *)
(* C5.  fold_player and update_hand_strength called with an id that is    *)
(* not in position_map leave the heap array and position_map exactly as   *)
(* they were.                                                             *)
(* ---------------------------------------------------------------------- *)
AbsentIdUnchanged ==
    [][(op' \in ByIdMethods /\ ~found')
          => (heap' = heap /\ position_map' = position_map)]_vars

\* fold_player returned for an id that was absent while players were present
AbsentIdWitness ==
    /\ op = "fold_player"
    /\ ~found
    /\ Len(heap) >= 2

(* ---------------------------------------------------------------------- *)
(* C6.  fold_player and update_hand_strength called with an absent id     *)
(* return a result other than the None a successful call returns.         *)
(* ---------------------------------------------------------------------- *)
AbsentIdReported ==
    (op \in ByIdMethods /\ ~found) => ret # None

(* ---------------------------------------------------------------------- *)
(* C7.  fold_player of a present id returns the removed player: the       *)
(* returned player's id is the id passed in, which is the id the call     *)
(* deleted from position_map.                                             *)
(* ---------------------------------------------------------------------- *)
FoldReturnsRemoved ==
    [][(op' = "fold_player" /\ found')
          => /\ Len(ret') = 1
             /\ ret'[1].player_id \in (DOMAIN position_map) \ DOMAIN position_map']_vars

(* ---------------------------------------------------------------------- *)
(* C8.  Size conservation: len(heap) grows by one in add_player, shrinks  *)
(* by one in a fold_player that found its id, is unchanged by             *)
(* update_hand_strength, and always equals the number of keys of          *)
(* position_map.                                                          *)
(* ---------------------------------------------------------------------- *)
SizeConservation ==
    [][/\ op' = "add_player" => Len(heap') = Len(heap) + 1
       /\ (op' = "fold_player" /\ found') => Len(heap') = Len(heap) - 1
       /\ op' = "update_hand_strength" => Len(heap') = Len(heap)
       /\ Len(heap') = Cardinality(DOMAIN position_map')]_vars

(* ---------------------------------------------------------------------- *)
(* C10.  update_hand_strength's directional rebalance (sift up only when  *)
(* the new score is strictly greater than the old one, otherwise sift     *)
(* down only) leaves the same heap array and position_map as sifting up   *)
(* and then down at the player's slot whatever the scores, in every       *)
(* reachable state, for every id and every new score.                     *)
(* ---------------------------------------------------------------------- *)
\* the rebalance the directional one is compared with
update_both_ways(s, player_id, new_score) ==
    IF player_id \notin DOMAIN s.position_map
    THEN Outcome(s, None)
    ELSE LET index == s.position_map[player_id]
             t == Engine(SetScore(s.heap, index, new_score), s.position_map)
         IN  Outcome(_sift_down(_sift_up(t, index), index), None)

DirectionalEqualsBothWays ==
    \A id \in DOMAIN position_map, score \in Scores :
        update_hand_strength(Self, id, score) = update_both_ways(Self, id, score)

(* ---------------------------------------------------------------------- *)
(* C9.  Round trip: after players with pairwise different ids and scores  *)
(* were added in any order, reading get_winner and folding that player    *)
(* until the structure is empty yields every one of them, in strictly     *)
(* descending order of hand_score.                                        *)
(* ---------------------------------------------------------------------- *)
RoundTripDescending ==
    /\ \A k \in 1 .. Len(drained) - 1 :
          drained[k].hand_score > drained[k + 1].hand_score
    /\ {drained[k] : k \in 1 .. Len(drained)} \cup {heap[k] : k \in 1 .. Len(heap)}
          = inserted
    /\ Len(drained) + Len(heap) = Cardinality(inserted)

\* the caller has emptied a structure that held NumRoundTrip players
RoundTripWitness ==
    /\ op = "fold_player"
    /\ Len(heap) = 0
    /\ Len(drained) = NumRoundTrip
    /\ Cardinality(inserted) = NumRoundTrip

(* ---------------------------------------------------------------------- *)
(* C11.  get_winner never changes the heap array or position_map; it      *)
(* returns the player in slot 0 when the heap holds a player and None     *)
(* when the heap is empty.                                                *)
(* ---------------------------------------------------------------------- *)
PeekIsPure ==
    [][op' = "get_winner"
          => /\ heap' = heap
             /\ position_map' = position_map
             /\ ret' = IF Len(heap) > 0 THEN <<heap[1]>> ELSE None]_vars

\* get_winner returned the root of a full heap that holds a weaker player
PeekIsPureWitness ==
    /\ op = "get_winner"
    /\ Len(heap) = MaxPlayers
    /\ ret = <<heap[1]>>
    /\ \E i \in Slots : heap[1].hand_score > At(Self, i).hand_score

(* ---------------------------------------------------------------------- *)
(* C16.  _sift_down tie-break: called on a slot whose two children are    *)
(* both in bounds, have equal hand_score and are strictly larger than the *)
(* slot's player, _sift_down swaps the slot with its left child 2i + 1    *)
(* (the player of the left child ends in the slot, the right child stays);*)
(* called on a slot none of whose children is strictly larger, it swaps   *)
(* nothing.  Checked on every slot of every engine the public methods     *)
(* rebalance: after fold_player's pop and after update_hand_strength's    *)
(* assignment.                                                            *)
(* ---------------------------------------------------------------------- *)
\* the engines on which fold_player and update_hand_strength, called now
\* with a present id, would call _sift_up and _sift_down
Rebalanced ==
    {after_pop(Self, id) : id \in DOMAIN position_map}
        \cup {after_assign(Self, id, score) : id \in DOMAIN position_map,
                                               score \in Scores}

TiedChildrenAbove(t, i) ==
    /\ _right(i) < Len(t.heap)
    /\ At(t, _left(i)).hand_score = At(t, _right(i)).hand_score
    /\ At(t, _left(i)).hand_score > At(t, i).hand_score

NoChildAbove(t, i) ==
    \A c \in {_left(i), _right(i)} :
        c < Len(t.heap) => ~(At(t, c).hand_score > At(t, i).hand_score)

SiftDownTieBreak ==
    \A t \in Rebalanced : \A i \in 0 .. Len(t.heap) - 1 :
        /\ TiedChildrenAbove(t, i)
              => /\ At(_sift_down(t, i), i) = At(t, _left(i))
                 /\ At(_sift_down(t, i), _right(i)) = At(t, _right(i))
                 /\ At(t, i) \in {At(_sift_down(t, i), c) :
                                      c \in {k \in _left(i) .. Len(t.heap) - 1 :
                                                 k # _right(i)}}
        /\ NoChildAbove(t, i) => _sift_down(t, i) = t

\* update_hand_strength is about to lower the root below two equal
\* children that are different Player objects
SiftDownTieBreakWitness ==
    \E id \in DOMAIN position_map, score \in Scores :
        /\ position_map[id] = 0
        /\ score < At(Self, 0).hand_score
        /\ TiedChildrenAbove(after_assign(Self, id, score), 0)
        /\ ~SameObject(heap[2], heap[3])
        /\ _sift_down(after_assign(Self, id, score), 0).heap[2].player_id = id

(* ---------------------------------------------------------------------- *)
(* C13.  Element lifecycle and frame: in every reachable state,           *)
(* fold_player of a present id takes exactly one slot out of the array,   *)
(* the one position_map gave for the id, and every other slot's player is *)
(* kept with its score; update_hand_strength of a present id gives the    *)
(* new score to the Player object of that id and leaves every other       *)
(* object with its score and its number of slots; add_player adds one     *)
(* slot holding the new player and keeps all others.  (Counted per Player *)
(* object and score, which is finer than the set of (id, score) pairs.)   *)
(* ---------------------------------------------------------------------- *)
\* the number of slots of h that hold player p with p's score
SlotCount(h, p) == Cardinality({k \in 1 .. Len(h) : h[k] = p})

\* the players a caller can pass to add_player
Addable == NewPlayers(PlayerIds) \cup Held

FoldFrame(id) ==
    LET target == At(Self, position_map[id])
        o == fold_player(Self, id)
    IN  /\ target.player_id = id
        /\ Len(o.heap) = Len(heap) - 1
        /\ \A p \in Held :
              SlotCount(o.heap, p)
                  = SlotCount(heap, p) - (IF p = target THEN 1 ELSE 0)

UpdateFrame(id, score) ==
    LET target == At(Self, position_map[id])
        o == update_hand_strength(Self, id, score)
    IN  /\ target.player_id = id
        /\ Len(o.heap) = Len(heap)
        /\ At(o, o.position_map[id]) = [target EXCEPT !.hand_score = score]
        /\ \A p \in Held :
              IF SameObject(p, target)
              THEN SlotCount(o.heap, [target EXCEPT !.hand_score = score])
                       = SlotCount(heap, target)
              ELSE SlotCount(o.heap, p) = SlotCount(heap, p)

AddFrame(player) ==
    LET o == add_player(Self, player)
    IN  /\ Len(o.heap) = Len(heap) + 1
        /\ \A p \in Held \cup {player} :
              SlotCount(o.heap, p)
                  = SlotCount(heap, p) + (IF p = player THEN 1 ELSE 0)

LifecycleFrame ==
    /\ \A id \in DOMAIN position_map : FoldFrame(id)
    /\ \A id \in DOMAIN position_map, score \in Scores : UpdateFrame(id, score)
    /\ \A player \in Addable : AddFrame(player)

\* a full heap whose root can be folded: the last player then moves to the
\* root and sinks below a stronger player
LifecycleFrameWitness ==
    /\ Len(heap) = MaxPlayers
    /\ \E id \in DOMAIN position_map :
          /\ position_map[id] = 0
          /\ FoldFrame(id)
          /\ heap[Len(heap) - 1].hand_score > heap[Len(heap)].hand_score
          /\ At(fold_player(Self, id), 0) = heap[Len(heap) - 1]
          /\ heap[Len(heap)] \in {At(fold_player(Self, id), k) :
                                     k \in 1 .. Len(heap) - 2}

(* ---------------------------------------------------------------------- *)
(* C14.  fold_player's rebalance: when the folded slot was not the last   *)
(* one, fold_player calls _sift_up and then _sift_down on that slot.      *)
(* Claimed: exactly one of the two calls swaps and the other swaps        *)
(* nothing.                                                               *)
(* ---------------------------------------------------------------------- *)
\* whether fold_player(id) calls the two sifts
FoldRebalances(id) == position_map[id] < Len(after_pop(Self, id).heap)

\* whether the _sift_up call of fold_player(id) swaps (a swap exchanges two
\* slots whose players differ in score, so it shows in the array)
FoldSiftUpMoves(id) ==
    _sift_up(after_pop(Self, id), position_map[id]) # after_pop(Self, id)

\* whether the _sift_down call that follows it swaps
FoldSiftDownMoves(id) ==
    LET up == _sift_up(after_pop(Self, id), position_map[id])
    IN  _sift_down(up, position_map[id]) # up

ExactlyOneSiftMoves ==
    \A id \in DOMAIN position_map :
        FoldRebalances(id) => (FoldSiftUpMoves(id) # FoldSiftDownMoves(id))

\* amended: at most one of the two calls swaps; both may swap nothing
AtMostOneSiftMoves ==
    \A id \in DOMAIN position_map :
        FoldRebalances(id) => ~(FoldSiftUpMoves(id) /\ FoldSiftDownMoves(id))

\* a heap in which folding the player of a slot that has children makes
\* _sift_up swap it with a parent that is not the root, and folding
\* another player makes neither _sift_up nor _sift_down swap
AtMostOneSiftMovesWitness ==
    /\ \E id \in DOMAIN position_map :
          /\ FoldRebalances(id)
          /\ _right(position_map[id]) < Len(heap) - 1
          /\ _parent(position_map[id]) > 0
          /\ FoldSiftUpMoves(id)
    /\ \E id \in DOMAIN position_map :
          /\ FoldRebalances(id)
          /\ ~FoldSiftUpMoves(id)
          /\ ~FoldSiftDownMoves(id)

(* ---------------------------------------------------------------------- *)
(* C17.  Logarithmic bound: every _sift_up call the public methods make   *)
(* on a heap of n players performs at most ceil(log2(n)) swaps.           *)
(* ---------------------------------------------------------------------- *)
\* the least k with 2^k >= n
CeilLog2(n) == CHOOSE k \in 0 .. n : 2 ^ k >= n /\ (k = 0 \/ 2 ^ (k - 1) < n)

\* the calls of _sift_up the public methods would make now: the engine the
\* call finds and the slot it is given
SiftUpCalls ==
    {<<after_append(Self, player), Len(heap)>> :
        player \in NewPlayers({Len(heap) + 1})}
    \cup {<<after_pop(Self, id), position_map[id]>> :
             id \in {x \in DOMAIN position_map : FoldRebalances(x)}}
    \cup UNION {{<<after_assign(Self, id, score), position_map[id]>> :
                    score \in {x \in DeepScores :
                                  x > At(Self, position_map[id]).hand_score}} :
                 id \in DOMAIN position_map}

SiftUpLogBound ==
    \A c \in SiftUpCalls :
        _sift_up_swaps(c[1], c[2]) <= CeilLog2(Len(c[1].heap))

\* add_player has carried the ninth player from the last slot to the root:
\* three swaps, and a heap of nine players allows four
SiftUpLogBoundWitness ==
    /\ op = "add_player"
    /\ Len(heap) = 9
    /\ heap[1].player_id = 9

(* ---------------------------------------------------------------------- *)
(* C19.  Idempotent update: update_hand_strength(id, p) for a present id  *)
(* whose hand_score is p already leaves the heap array and position_map   *)
(* as they were; hence calling update_hand_strength(id, p) twice in a row *)
(* gives the state one call gives.                                        *)
(* ---------------------------------------------------------------------- *)
UpdateTwice(id, score) ==
    LET once == update_hand_strength(Self, id, score)
    IN  update_hand_strength(Engine(once.heap, once.position_map), id, score)

UpdateIdempotent ==
    /\ \A id \in DOMAIN position_map :
          LET o == update_hand_strength(Self, id,
                                        At(Self, position_map[id]).hand_score)
          IN  o.heap = heap /\ o.position_map = position_map
    /\ \A id \in DOMAIN position_map, score \in Scores :
          UpdateTwice(id, score) = update_hand_strength(Self, id, score)

(* ---------------------------------------------------------------------- *)
(* C20.  _swap contract: for valid slots i and j (i = j included) of a    *)
(* heap that satisfies the bijection invariant, _swap(i, j) exchanges the *)
(* players of the two slots, writes the new slot of both their ids into   *)
(* position_map, changes no other slot and no other entry, and yields a   *)
(* state that satisfies the bijection invariant.                          *)
(* ---------------------------------------------------------------------- *)
\* the bijection invariant, of an engine s
Bijective(s) ==
    /\ \A k \in 0 .. Len(s.heap) - 1 :
          /\ At(s, k).player_id \in DOMAIN s.position_map
          /\ s.position_map[At(s, k).player_id] = k
    /\ DOMAIN s.position_map = {s.heap[k].player_id : k \in 1 .. Len(s.heap)}

SwapContract ==
    \A i, j \in Slots :
        LET t == _swap(Self, i, j)
        IN  /\ Len(t.heap) = Len(heap)
            /\ At(t, i) = At(Self, j)
            /\ At(t, j) = At(Self, i)
            /\ \A k \in Slots \ {i, j} : At(t, k) = At(Self, k)
            /\ DOMAIN t.position_map = DOMAIN position_map
            /\ t.position_map[At(Self, j).player_id] = i
            /\ t.position_map[At(Self, i).player_id] = j
            /\ \A id \in DOMAIN position_map :
                  id \notin {At(Self, i).player_id, At(Self, j).player_id}
                      => t.position_map[id] = position_map[id]
            /\ Bijective(Self) => Bijective(t)

\* a full heap: swapping a slot with itself changes nothing, and swapping
\* the root with the last slot changes both slots and both entries
SwapContractWitness ==
    /\ Len(heap) = NumDistinct
    /\ Bijective(Self)
    /\ _swap(Self, 0, 0) = Self
    /\ _swap(Self, 0, Len(heap) - 1).heap[1] = heap[Len(heap)]
    /\ _swap(Self, 0, Len(heap) - 1).position_map[heap[1].player_id] = Len(heap) - 1

(* ---------------------------------------------------------------------- *)
(* C12.  Concrete scenario: when simulate_game deals 100, 500, 300 and    *)
(* 200 to the players 1, 2, 3 and 4, the leader after the deal is player  *)
(* 2; after update_hand_strength(1, 850) it is player 1; after            *)
(* fold_player(4) the heap holds 3 players and satisfies the heap         *)
(* invariant; after update_hand_strength(3, 900) the leader is player 3;  *)
(* after update_hand_strength(3, 1200) it is player 3 with score 1200.    *)
(* ---------------------------------------------------------------------- *)
ScenarioDealt ==
    inserted = {Player(1, 100, 1), Player(2, 500, 1),
                Player(3, 300, 1), Player(4, 200, 1)}

ScenarioOutcome ==
    ScenarioDealt =>
        /\ line = "flop" => (Len(ret) = 1 /\ ret[1].player_id = 2)
        /\ line = "betting" => (Len(ret) = 1 /\ ret[1].player_id = 1)
        /\ line = "turn" => (Len(heap) = 3 /\ HeapInvariant)
        /\ line = "river" => (Len(ret) = 1 /\ ret[1].player_id = 3)
        /\ line = "end" => /\ Len(ret) = 1
                           /\ ret[1].player_id = 3
                           /\ ret[1].hand_score = 1200

\* simulate_game has run to its end on the deal of the scenario
ScenarioOutcomeWitness ==
    /\ ScenarioDealt
    /\ line = "end"
    /\ op = "get_winner"
    /\ Len(heap) = 3

(* ---------------------------------------------------------------------- *)
(* C18.  Termination: every call of add_player, get_winner, fold_player   *)
(* and update_hand_strength that a thread has begun returns, provided the *)
(* thread keeps being scheduled; each pass of the loop of _sift_up        *)
(* continues at a strictly smaller slot and each recursive call of        *)
(* _sift_down is given a strictly greater slot.                           *)
(* ---------------------------------------------------------------------- *)
CallsTerminate ==
    /\ \A t \in Threads : (thread[t].pc # "idle") ~> (thread[t].pc = "idle")
    /\ [][\A t \in Threads :
            /\ (thread[t].pc = "58" /\ thread'[t].pc = "47")
                  => thread'[t].i > thread[t].i
            /\ (thread[t].pc = "43" /\ thread'[t].pc = "41")
                  => (thread'[t].i < thread[t].i /\ thread'[t].i >= 0)]_vars

\* a thread is in _sift_down's second recursive call, at a slot of the
\* heap's third level, and has found nothing there to swap
CallsTerminateWitness ==
    \E t \in Threads :
        /\ thread[t].pc = "56"
        /\ thread[t].index = 0
        /\ thread[t].i = _left(_left(0))
        /\ thread[t].max_idx = thread[t].i
        /\ mutex.holder = t

(* ---------------------------------------------------------------------- *)
(* C15.  Interleaving: when the callers take their mutex around every     *)
(* call, so that each call runs as one atomic step, every state in which  *)
(* no thread is inside a method satisfies the bijection invariant and no  *)
(* call raises; when they take none and the statements of two calls       *)
(* interleave, a state is reachable in which both threads have returned   *)
(* from their calls and the bijection invariant is violated (the witness).*)
(* ---------------------------------------------------------------------- *)
Quiescent == \A t \in Threads : thread[t].pc = "idle"

MutexKeepsBijection ==
    mutex.used =>
        /\ \A t \in Threads : thread[t].pc # "raised"
        /\ Quiescent => Bijective(Self)

\* without the mutex: both threads have made calls that returned normally,
\* no thread is inside a method, and the bijection invariant is violated
InterleavingBreaksBijection ==
    /\ ~mutex.used
    /\ Quiescent
    /\ \A t \in Threads : thread[t].calls >= 1
    /\ ~Bijective(Self)

====
